---------------------------- MODULE Spec2Model ----------------------------
(***************************************************************************)
(* Model of src/main.py: the StructuralBreakEngine (fetch, compute, the    *)
(* three plot methods) and the module-level execution loop followed by the *)
(* comparison plot.                                                        *)
(*                                                                         *)
(* Number encoding (all arithmetic is exact integer arithmetic):           *)
(*   - a cell of a data frame is <<>> (NaN / missing) or <<v>> (a number); *)
(*   - a closing price is B^k for a fixed base B > 1 and is stored as its  *)
(*     level k, so that np.log(p[t] / p[t-1]) = (k[t] - k[t-1]) * ln B is  *)
(*     stored as the integer k[t] - k[t-1] (unit ln B);                    *)
(*   - Roll_Mean is stored in units of 1/ROLLING_WINDOW (the window sum);  *)
(*   - Roll_Vol is stored in fixed point, see RollingStd;                  *)
(*   - Roll_KS is stored in units of 1/(len(window) * len(baseline));      *)
(*   - a z-score is stored as <<d, k, s>>, the exact value d * sqrt(k/s),  *)
(*     see ZScore.  The z-score does not depend on the unit of its input.  *)
(***************************************************************************)
EXTENDS Integers, Sequences, FiniteSets, TLC

VARIABLES
    order,      \* iteration order of TICKERS.items()
    i,          \* position of the for loop in order
    pc,         \* statement the run is at
    e,          \* the engine of the current iteration (or NoEngine)
    raw,        \* the price table yf.download returned to e (column layout normalised)
    rolled,     \* e.df as of line 78, before compute's dropna
    engines,    \* the module-level list engines
    log,        \* what the run has printed
    saved,      \* the figure files written so far
    figure,     \* the lines drawn on the comparison plot
    raised      \* the assets one of whose stages raised

vars == <<order, i, pc, e, raw, rolled, engines, log, saved, figure, raised>>

-----------------------------------------------------------------------------
(* Configuration, lines 11-20 *)

ROLLING_WINDOW == 21
BASELINE_PERIOD == 2019
MIN_OBS == 10

TICKERS == [NIFTY |-> "^NSEI", SENSEX |-> "^BSESN"]
Names == DOMAIN TICKERS

(* Bounds of the model *)
MaxRows == 24        \* rows of the longest price table
PreRows == 3         \* rows dated before the baseline year
MissAt == 8          \* row holding the missing cell, when there is one
VolScale == 16       \* fixed-point scale of Roll_Vol

-----------------------------------------------------------------------------
(* Cells and sequences *)

NaN == <<>>
Num(v) == <<v>>
IsNaN(c) == c = NaN
Val(c) == c[1]

RECURSIVE SumSeq(_)
SumSeq(s) == IF s = <<>> THEN 0 ELSE Head(s) + SumSeq(Tail(s))

RECURSIVE Filter(_, _)
\* the subsequence s[t], t in keep (keep a set of positions), order preserved
Filter(s, keep) ==
    IF s = <<>> THEN <<>>
    ELSE LET n == Len(s)
             rest == Filter(SubSeq(s, 1, n - 1), keep)
         IN IF n \in keep THEN Append(rest, s[n]) ELSE rest

Abs(x) == IF x < 0 THEN -x ELSE x

RECURSIVE SetMax(_)
SetMax(S) ==
    LET x == CHOOSE y \in S : TRUE
    IN IF S = {x} THEN x
       ELSE LET m == SetMax(S \ {x}) IN IF x > m THEN x ELSE m

RECURSIVE ISqrtIn(_, _, _)
\* the r in lo..hi with r*r <= x < (r+1)*(r+1)
ISqrtIn(x, lo, hi) ==
    IF lo = hi THEN lo
    ELSE LET mid == (lo + hi + 1) \div 2
         IN IF mid * mid <= x THEN ISqrtIn(x, mid, hi) ELSE ISqrtIn(x, lo, mid - 1)
\* floor of the square root of x, 0 <= x < 2^30
ISqrt(x) == ISqrtIn(x, 0, 32767)

-----------------------------------------------------------------------------
(* Data frames.  A frame is [index, cols]: index a sequence of dates, cols *)
(* a function from column names to sequences of cells as long as index.   *)
(* A date is <<year, ordinal of the trading day>>.                         *)

Year(d) == d[1]

NoFrame == [index |-> <<>>, cols |-> [c \in {} |-> <<>>]]

Rows(df) == 1..Len(df.index)

WithColumn(df, c, col) ==
    [df EXCEPT !.cols = [x \in DOMAIN df.cols \cup {c} |->
                            IF x = c THEN col ELSE df.cols[x]]]

\* DataFrame.dropna(inplace=True): a row stays iff no column is NaN in it
DropNa(df) ==
    LET keep == {t \in Rows(df) : \A c \in DOMAIN df.cols : ~IsNaN(df.cols[c][t])}
    IN [index |-> Filter(df.index, keep),
        cols |-> [c \in DOMAIN df.cols |-> Filter(df.cols[c], keep)]]

\* Series.shift(1)
Shift1(col) == [t \in 1..Len(col) |-> IF t = 1 THEN NaN ELSE col[t - 1]]

\* np.log(a / b) on price levels; NaN propagates
LogRatio(a, b) == IF IsNaN(a) \/ IsNaN(b) THEN NaN ELSE Num(Val(a) - Val(b))

-----------------------------------------------------------------------------
(* What yf.download can return (line 33): a table                          *)
(* [multi, tick, fields, index, rows], rows[t][j] the cell of row t in     *)
(* column fields[j]; multi says the columns are a MultiIndex whose level 1 *)
(* is tick.                                                                *)

Patterns == {"flat", "zigzag", "wave"}
Level(pat, t) ==
    CASE pat = "flat" -> 0
      [] pat = "zigzag" -> t % 2
      [] pat = "wave" -> (t * t) % 5

\* no row, one row, one row too few for a complete window, a long table
RowCounts == {0, 1, ROLLING_WINDOW, MaxRows}
\* rows dated in the baseline year
BaseCounts == {0, MIN_OBS - 1, MIN_OBS}
Misses == {"none", "close", "open"}
Layouts == {"flat", "multi", "multi_other", "noclose", "nocols"}

DateOf(t, b) ==
    <<IF t <= PreRows THEN BASELINE_PERIOD - 1
      ELSE IF t <= PreRows + b THEN BASELINE_PERIOD
      ELSE BASELINE_PERIOD + 1, t>>

MkTable(ticker, lay, n, b, pat, miss) ==
    [multi |-> lay \in {"multi", "multi_other"},
     tick |-> CASE lay = "multi" -> ticker
                [] lay = "multi_other" -> "OTHER"
                [] OTHER -> "",
     fields |-> CASE lay = "nocols" -> <<>>
                  [] lay = "noclose" -> <<"Price", "Open">>
                  [] OTHER -> <<"Close", "Open">>,
     index |-> [t \in 1..n |-> DateOf(t, b)],
     rows |-> [t \in 1..n |->
                 IF lay = "nocols" THEN <<>>
                 ELSE <<IF miss = "close" /\ t = MissAt THEN NaN ELSE Num(Level(pat, t)),
                        IF miss = "open" /\ t = MissAt THEN NaN ELSE Num(Level(pat, t))>>]]

Downloads(ticker) ==
    {MkTable(ticker, lay, n, b, pat, miss) :
        lay \in Layouts \ {"nocols"}, n \in RowCounts, b \in BaseCounts,
        pat \in Patterns, miss \in Misses}
    \cup {MkTable(ticker, "nocols", 0, 0, "flat", "none")}

-----------------------------------------------------------------------------
(* StructuralBreakEngine, lines 24-85 *)

\* __init__, lines 25-29 (None is the empty frame / the empty array)
NewEngine(name) == [name |-> name, ticker |-> TICKERS[name], df |-> NoFrame, baseline |-> <<>>]

\* lines 42-48: both the xs() branch and the KeyError fallback leave the
\* level-0 names as the columns
FlatFields(tbl, ticker) ==
    IF tbl.multi
    THEN IF tbl.tick = ticker THEN tbl.fields ELSE tbl.fields
    ELSE tbl.fields

HasClose(fields) == \E j \in 1..Len(fields) : fields[j] = "Close"

\* line 54 raises IndexError when there is no column to rename
RenameRaises(fields) == ~HasClose(fields) /\ Len(fields) = 0

\* lines 51-54
CloseFields(fields) ==
    IF HasClose(fields) THEN fields ELSE <<"Close">> \o Tail(fields)

\* the table as a frame with the columns named by fields
FrameOf(tbl, fields) ==
    [index |-> tbl.index,
     cols |-> [c \in {fields[j] : j \in 1..Len(fields)} |->
                 LET j == CHOOSE k \in 1..Len(fields) : fields[k] = c
                 IN [t \in 1..Len(tbl.rows) |-> tbl.rows[t][j]]]]

\* line 56
LogReturn(close) ==
    LET prev == Shift1(close)
    IN [t \in 1..Len(close) |-> LogRatio(close[t], prev[t])]

\* line 60
Baseline(df) ==
    LET in == {t \in Rows(df) : Year(df.index[t]) = BASELINE_PERIOD}
        sel == Filter(df.cols["Log_Return"], in)
    IN [t \in 1..Len(sel) |-> Val(sel[t])]

\* lines 42-60: self.df and self.baseline after fetch() on the table tbl
FetchFrame(tbl, ticker) ==
    LET f == FrameOf(tbl, CloseFields(FlatFields(tbl, ticker)))
    IN DropNa(WithColumn(f, "Log_Return", LogReturn(f.cols["Close"])))

\* the trailing window of col ending at t (shorter at the start of col)
Window(col, t) ==
    SubSeq(col, IF t > ROLLING_WINDOW THEN t - ROLLING_WINDOW + 1 ELSE 1, t)

\* a window counted one observation early
CompleteOneShort(col, t) ==
    /\ t >= ROLLING_WINDOW - 1
    /\ \A u \in 1..t : u > t - ROLLING_WINDOW + 1 => ~IsNaN(col[u])

\* Series.rolling(ROLLING_WINDOW): a window counts once it holds
\* ROLLING_WINDOW observations, none of them NaN
Complete(col, t) ==
    /\ t >= ROLLING_WINDOW
    /\ \A u \in (t - ROLLING_WINDOW + 1)..t : ~IsNaN(col[u])

Values(w) == [u \in 1..Len(w) |-> Val(w[u])]
Squares(x) == [u \in 1..Len(x) |-> x[u] * x[u]]

\* line 69, in units of 1/ROLLING_WINDOW
RollingMean(col) ==
    [t \in 1..Len(col) |->
        IF Complete(col, t) THEN Num(SumSeq(Values(Window(col, t)))) ELSE NaN]

\* line 70: the sample standard deviation (ddof = 1) of the window, in fixed
\* point: floor of VolScale * sqrt(N * (N - 1)) times the standard deviation
RollingStd(col) ==
    [t \in 1..Len(col) |->
        IF Complete(col, t)
        THEN LET x == Values(Window(col, t))
                 v == ROLLING_WINDOW * SumSeq(Squares(x)) - SumSeq(x) * SumSeq(x)
             IN Num(ISqrt(v * VolScale * VolScale))
        ELSE NaN]

CountLe(x, v) == Cardinality({u \in 1..Len(x) : x[u] <= v})

\* stats.ks_2samp(x, y)[0] in units of 1/(len(x) * len(y)): the largest
\* distance between the two empirical distribution functions
Ks2Samp(x, y) ==
    LET pts == {x[u] : u \in 1..Len(x)} \cup {y[u] : u \in 1..Len(y)}
    IN SetMax({Abs(Len(y) * CountLe(x, v) - Len(x) * CountLe(y, v)) : v \in pts})

\* ks_roll refusing a baseline of exactly MIN_OBS observations
KsRollStrict(w, baseline) ==
    IF Len(w) < MIN_OBS \/ Len(baseline) <= MIN_OBS \/ (\E u \in 1..Len(w) : IsNaN(w[u]))
    THEN NaN
    ELSE Num(Ks2Samp(Values(w), baseline))

\* ks_roll, lines 72-76; w is the raw window, a sequence of cells
KsRoll(w, baseline) ==
    IF Len(w) < MIN_OBS \/ Len(baseline) < MIN_OBS \/ (\E u \in 1..Len(w) : IsNaN(w[u]))
    THEN NaN
    ELSE Num(Ks2Samp(Values(w), baseline))

\* line 78: rolling(ROLLING_WINDOW).apply(ks_roll, raw=True)
RollingKs(col, baseline) ==
    [t \in 1..Len(col) |->
        IF Complete(col, t) THEN KsRoll(Window(col, t), baseline) ELSE NaN]

\* stats.zscore's ddof, left at its default in lines 83-85
ZSCORE_DDOF == 0

\* stats.zscore(col, nan_policy='omit'): (x - mean) / std over the cells
\* that are not NaN.  With n such cells, d = n*x - sum and s = sum of the
\* d*d, the z-score of x is d * sqrt((n - ddof) / s), stored <<d, n - ddof, s>>;
\* a zero standard deviation gives 0/0 = NaN
ZScore(col) ==
    LET def == {t \in 1..Len(col) : ~IsNaN(col[t])}
        n == Cardinality(def)
        xs == Values(Filter(col, def))
        sum == SumSeq(xs)
        d(t) == n * Val(col[t]) - sum
        s == SumSeq([u \in 1..Len(xs) |-> (n * xs[u] - sum) * (n * xs[u] - sum)])
    IN [t \in 1..Len(col) |->
          IF IsNaN(col[t]) \/ s = 0 THEN NaN ELSE <<d(t), n - ZSCORE_DDOF, s>>]

\* lines 67-78: the frame with the three rolling features, before dropna
RolledFrame(df, baseline) ==
    LET r == df.cols["Log_Return"]
    IN WithColumn(WithColumn(WithColumn(df,
           "Roll_Mean", RollingMean(r)),
           "Roll_Vol", RollingStd(r)),
           "Roll_KS", RollingKs(r, baseline))

\* lines 83-85
WithZScores(df) ==
    WithColumn(WithColumn(WithColumn(df,
        "Z_Mean", ZScore(df.cols["Roll_Mean"])),
        "Z_Vol", ZScore(df.cols["Roll_Vol"])),
        "Z_KS", ZScore(df.cols["Roll_KS"]))

\* dropna(subset=["Roll_Mean"]) in place of line 79
ComputeFrameSubset(roll) ==
    LET keep == {t \in Rows(roll) : ~IsNaN(roll.cols["Roll_Mean"][t])}
    IN WithZScores([index |-> Filter(roll.index, keep),
                    cols |-> [c \in DOMAIN roll.cols |-> Filter(roll.cols[c], keep)]])

\* lines 79-85
ComputeFrame(roll) == WithZScores(DropNa(roll))

-----------------------------------------------------------------------------
(* Execution, lines 136-165 *)

NoEngine == [name |-> "", ticker |-> "", df |-> NoFrame, baseline |-> <<>>]

Orders == {s \in [1..Cardinality(Names) -> Names] : \A a, b \in DOMAIN s : a # b => s[a] # s[b]}

TryStages == {"fetch", "compute", "plot_dashboard", "plot_mean_stability", "plot_ks_only"}

Msg(kind, name) == [kind |-> kind, name |-> name]

Init ==
    /\ order \in Orders
    /\ i = 1
    /\ pc = "loop"
    /\ e = NoEngine
    /\ raw = NoFrame
    /\ rolled = NoFrame
    /\ engines = <<>>
    /\ log = <<>>
    /\ saved = {}
    /\ figure = <<>>
    /\ raised = {}

\* the try statement around the whole for loop instead of its body: an
\* exception ends the loop
ExceptPcAbort == "comparison"

\* where the run goes on after the except clause, lines 148-149: the next
\* iteration of the for loop
ExceptPc == "loop"

\* lines 148-149: the exception ends this iteration only
Except ==
    /\ log' = Append(log, Msg("skipping", e.name))
    /\ raised' = raised \cup {e.name}
    /\ i' = i + 1
    /\ pc' = ExceptPc
    /\ UNCHANGED <<order, engines, saved, figure>>

\* lines 138-141
LoopBody ==
    /\ pc = "loop"
    /\ i <= Len(order)
    /\ log' = Append(log, Msg("processing", order[i]))
    /\ e' = NewEngine(order[i])
    /\ raw' = NoFrame
    /\ rolled' = NoFrame
    /\ pc' = "fetch"
    /\ UNCHANGED <<order, i, engines, saved, figure, raised>>

\* line 142, e.fetch() (lines 31-64) on what yf.download returns
Fetch ==
    /\ pc = "fetch"
    /\ \E tbl \in Downloads(e.ticker) :
          LET fields == FlatFields(tbl, e.ticker)
          IN IF RenameRaises(fields)
             THEN /\ raw' = FrameOf(tbl, fields)
                  /\ Except
                  /\ UNCHANGED <<e, rolled>>
             ELSE LET df == FetchFrame(tbl, e.ticker)
                      base == Baseline(df)
                  IN /\ raw' = FrameOf(tbl, CloseFields(fields))
                     /\ e' = [e EXCEPT !.df = df, !.baseline = base]
                     /\ log' = IF Len(base) < MIN_OBS
                                THEN Append(log, Msg("warning", e.name))
                                ELSE log
                     /\ pc' = "compute"
                     /\ UNCHANGED <<order, i, rolled, engines, saved, figure, raised>>

\* line 143, e.compute() (lines 66-85)
Compute ==
    /\ pc = "compute"
    /\ rolled' = RolledFrame(e.df, e.baseline)
    /\ e' = [e EXCEPT !.df = ComputeFrame(rolled')]
    /\ pc' = "plot_dashboard"
    /\ UNCHANGED <<order, i, raw, engines, log, saved, figure, raised>>

\* a plot method: draws from e.df and saves one file
Plot(at, file, next) ==
    /\ pc = at
    /\ saved' = saved \cup {<<e.name, file>>}
    /\ pc' = next
    /\ UNCHANGED <<order, i, e, raw, rolled, engines, log, figure, raised>>

\* line 144, lines 87-110
PlotDashboard == Plot("plot_dashboard", "dashboard", "plot_mean_stability")
\* line 145, lines 112-122
PlotMeanStability == Plot("plot_mean_stability", "mean_stability", "plot_ks_only")
\* line 146, lines 124-133
PlotKsOnly == Plot("plot_ks_only", "ks_breakdown", "append")

\* line 147
AppendEngine ==
    /\ pc = "append"
    /\ engines' = Append(engines, e)
    /\ i' = i + 1
    /\ pc' = "loop"
    /\ UNCHANGED <<order, e, raw, rolled, log, saved, figure, raised>>

\* a statement of the try body (lines 141-146) raises an Exception: the
\* download fails, a figure cannot be drawn or written, ...
StageRaises ==
    /\ pc \in TryStages
    /\ Except
    /\ UNCHANGED <<e, raw, rolled>>

\* the for loop is exhausted
LoopExit ==
    /\ pc = "loop"
    /\ i > Len(order)
    /\ pc' = "comparison"
    /\ UNCHANGED <<order, i, e, raw, rolled, engines, log, saved, figure, raised>>

\* lines 152-165
ComparisonPlot ==
    /\ pc = "comparison"
    /\ engines # <<>>
    /\ figure' = [k \in 1..Len(engines) |->
                    [label |-> engines[k].name,
                     x |-> engines[k].df.index,
                     y |-> engines[k].df.cols["Z_Vol"]]]
    /\ saved' = saved \cup {<<"nse_bse", "volatility_comparison">>}
    /\ log' = Append(log, Msg("complete", ""))
    /\ pc' = "done"
    /\ UNCHANGED <<order, i, e, raw, rolled, engines, raised>>

\* line 152 with engines empty: nothing is drawn or printed
ComparisonNone ==
    /\ pc = "comparison"
    /\ engines = <<>>
    /\ pc' = "done"
    /\ UNCHANGED <<order, i, e, raw, rolled, engines, log, saved, figure, raised>>

Next ==
    \/ LoopBody
    \/ Fetch
    \/ Compute
    \/ PlotDashboard
    \/ PlotMeanStability
    \/ PlotKsOnly
    \/ AppendEngine
    \/ StageRaises
    \/ LoopExit
    \/ ComparisonPlot
    \/ ComparisonNone

Spec == Init /\ [][Next]_vars

-----------------------------------------------------------------------------
(* Properties *)

EngineNames == {engines[k].name : k \in 1..Len(engines)}
Logged(kind, name) == \E k \in 1..Len(log) : log[k] = Msg(kind, name)
LoggedKind(kind) == \E k \in 1..Len(log) : log[k].kind = kind
Features == {"Roll_Mean", "Roll_Vol", "Roll_KS"}
ZOf(f) == CASE f = "Roll_Mean" -> "Z_Mean" [] f = "Roll_Vol" -> "Z_Vol" [] f = "Roll_KS" -> "Z_KS"
\* compute() has just returned for the engine e
Computed == pc = "plot_dashboard"
\* fetch() has just returned for the engine e
Fetched == pc = "compute"
\* the iteration of the engine e is over
IterationOver == pc \in {"loop", "comparison", "done"} /\ e # NoEngine
Dates(df) == {df.index[t] : t \in Rows(df)}

\* C1: a failure raised in any stage of one asset never aborts the run:
\* once the run is over every asset was processed, engines holds exactly
\* the assets none of whose stages raised, in loop order, and the
\* comparison plot is drawn over exactly these engines.
C1_FailureIsolated ==
    pc = "done" =>
        /\ \A n \in Names : Logged("processing", n)
        /\ EngineNames = Names \ raised
        /\ \A a, b \in 1..Len(engines) : a # b => engines[a].name # engines[b].name
        /\ engines # <<>> =>
              /\ Len(figure) = Len(engines)
              /\ \A k \in 1..Len(engines) : figure[k].label = engines[k].name

\* C1 witness: the first asset of the loop raised, the second was processed
\* to the end and is the one engine of the comparison.
C1_Witness ==
    /\ pc = "done"
    /\ raised = {order[1]}
    /\ Len(engines) = 1 /\ engines[1].name = order[2]
    /\ Len(figure) = 1

\* C2: for an asset with no return in the baseline year and at least
\* ROLLING_WINDOW returns, fetch() then compute() completes, a warning is
\* recorded, every KS value is missing, and Roll_Mean and Roll_Vol are in the
\* result for every date that has a complete trailing window.
C2_ZeroBaselineKeepsMeanVol ==
    (Computed /\ Len(e.baseline) = 0 /\ Len(rolled.index) >= ROLLING_WINDOW) =>
        /\ Logged("warning", e.name)
        /\ \A t \in Rows(rolled) : IsNaN(rolled.cols["Roll_KS"][t])
        /\ \A t \in Rows(rolled) :
              t >= ROLLING_WINDOW =>
                 \E u \in Rows(e.df) :
                    /\ e.df.index[u] = rolled.index[t]
                    /\ ~IsNaN(e.df.cols["Roll_Mean"][u])
                    /\ ~IsNaN(e.df.cols["Roll_Vol"][u])

\* C3: an asset whose price series is empty fails its pipeline and is
\* skipped: once its iteration is over it is not in engines and a skip is
\* recorded for it.
C3_EmptySeriesSkipped ==
    (IterationOver /\ Len(raw.index) = 0) =>
        /\ e.name \notin EngineNames
        /\ Logged("skipping", e.name)

\* C4: when a feature series handed to the normalisation is constant,
\* compute() signals an Undefined-Normalization condition (it raises, or
\* records the condition) and produces no z-score from a zero deviation.
C4_ConstantFeatureSignalled ==
    \A f \in Features :
        (/\ Computed
         /\ Len(e.df.index) > 0
         /\ \A t, u \in Rows(e.df) : e.df.cols[f][t] = e.df.cols[f][u])
        => LoggedKind("undefined_normalization")

\* C5: when every asset failed, the comparison step yields an empty bundle
\* and signals NoDataAvailable, and the run ends.
C5_NoDataSignalled ==
    (pc = "done" /\ engines = <<>>) =>
        /\ figure = <<>>
        /\ LoggedKind("no_data_available")

\* the sum of the z-scores of column c of df is 0: all share the factor
\* sqrt(k/s), so the d sum to 0
ZSumZero(df, c) == SumSeq([t \in Rows(df) |-> df.cols[c][t][1]]) = 0
\* the squares of the z-scores d*sqrt(k/s) of column c sum to n - 1
ZSquaresSumToNMinus1(df, c) ==
    LET z == df.cols[c]
    IN SumSeq([t \in Rows(df) |-> z[t][1] * z[t][1]]) * z[1][2]
          = (Len(z) - 1) * z[1][3]

\* C6: for every feature series with at least two values and non-zero
\* variance, the z-scores compute() produces sum to 0 and their squares sum
\* to n - 1 (mean 0, sample standard deviation 1).
C6_ZUnitSampleStd ==
    \A f \in Features :
        (/\ Computed
         /\ Len(e.df.index) >= 2
         /\ \E t, u \in Rows(e.df) : e.df.cols[f][t] # e.df.cols[f][u])
        => /\ \A t \in Rows(e.df) : ~IsNaN(e.df.cols[ZOf(f)][t])
           /\ ZSumZero(e.df, ZOf(f))
           /\ ZSquaresSumToNMinus1(e.df, ZOf(f))

\* the rows of the price table whose return is defined: not the first, the
\* price and the price of the row before both present
ReturnDefined(t) ==
    /\ t > 1
    /\ ~IsNaN(raw.cols["Close"][t])
    /\ ~IsNaN(raw.cols["Close"][t - 1])

\* C7: for a price table with at least 2 valid observations, the return
\* series fetch() builds keeps exactly the dates whose return is defined,
\* each with the value ln(p[t] / p[t-1]) of consecutive raw rows; no date is
\* dropped for another reason.
C7_ReturnSeriesExact ==
    (/\ Fetched
     /\ Cardinality({t \in Rows(raw) : ~IsNaN(raw.cols["Close"][t])}) >= 2)
    => /\ Dates(e.df) = {raw.index[t] : t \in {u \in Rows(raw) : ReturnDefined(u)}}
       /\ Len(e.df.index) = Cardinality({u \in Rows(raw) : ReturnDefined(u)})
       /\ \A k \in Rows(e.df) : \A t \in Rows(raw) :
             raw.index[t] = e.df.index[k] =>
                e.df.cols["Log_Return"][k] =
                    Num(Val(raw.cols["Close"][t]) - Val(raw.cols["Close"][t - 1]))

\* C8: the rolling KS distance at a date is defined iff the trailing window
\* is complete, has at least 10 observations, none undefined, and the
\* baseline has at least 10 observations; otherwise it is missing.  When
\* defined it is a distance between 0 and 1.
C8_KsDefinedIff ==
    Computed =>
        \A t \in Rows(rolled) :
            LET r == rolled.cols["Log_Return"]
                ks == rolled.cols["Roll_KS"][t]
                usable ==
                    /\ t >= ROLLING_WINDOW
                    /\ \A u \in 1..Len(r) :
                          (t - ROLLING_WINDOW < u /\ u <= t) => ~IsNaN(r[u])
                    /\ ROLLING_WINDOW >= 10
                    /\ Len(e.baseline) >= 10
            IN /\ ~IsNaN(ks) <=> usable
               /\ ~IsNaN(ks) =>
                     (0 <= Val(ks) /\ Val(ks) <= ROLLING_WINDOW * Len(e.baseline))

\* C8 witness: a baseline of exactly 10 observations, a date with a complete
\* window and a distance, and an earlier date without one.
C8_Witness ==
    /\ Computed
    /\ Len(e.baseline) = 10
    /\ \E t, u \in Rows(rolled) :
          /\ ~IsNaN(rolled.cols["Roll_KS"][t])
          /\ Val(rolled.cols["Roll_KS"][t]) > 0
          /\ IsNaN(rolled.cols["Roll_KS"][u])

\* C9: with a return series of length L and window N, no feature is emitted
\* for the first N-1 dates; if L < N every feature series is empty; if
\* L >= N and the baseline is usable the features are emitted for exactly
\* the last L-N+1 dates.
C9_MissingWindowPolicy ==
    Computed =>
        LET L == Len(rolled.index)
            N == ROLLING_WINDOW
        IN /\ \A t \in Rows(rolled) : t <= N - 1 => rolled.index[t] \notin Dates(e.df)
           /\ L < N => /\ e.df.index = <<>>
                       /\ \A c \in DOMAIN e.df.cols : e.df.cols[c] = <<>>
           /\ (L >= N /\ Len(e.baseline) >= MIN_OBS) =>
                 /\ e.df.index = SubSeq(rolled.index, N, L)
                 /\ \A f \in Features : e.df.cols[f] = SubSeq(rolled.cols[f], N, L)

\* C9 witness: a return series longer than the window with a usable
\* baseline, whose features are emitted for more than one date.
C9_Witness ==
    /\ Computed
    /\ Len(rolled.index) > ROLLING_WINDOW
    /\ Len(e.baseline) >= MIN_OBS
    /\ Len(e.df.index) = Len(rolled.index) - ROLLING_WINDOW + 1

\* C9 second case reached: a return series one short of the window.
C9_ShortReached ==
    Computed /\ Len(rolled.index) = ROLLING_WINDOW - 1 /\ e.df.index = <<>>

\* C10: after compute() every retained date has the three features defined,
\* the feature columns and the z-score columns all have the frame's one
\* index, and a date on which a feature is missing is in none of them.
C10_OneIndex ==
    Computed =>
        /\ \A c \in Features \cup {ZOf(f) : f \in Features} :
              /\ c \in DOMAIN e.df.cols
              /\ Len(e.df.cols[c]) = Len(e.df.index)
        /\ \A t \in Rows(e.df) : \A f \in Features : ~IsNaN(e.df.cols[f][t])
        /\ \A t \in Rows(rolled) :
              (\E f \in Features : IsNaN(rolled.cols[f][t])) =>
                  rolled.index[t] \notin Dates(e.df)

\* C10 witness: a date whose rolling mean and volatility are defined and
\* whose KS distance alone is missing has been removed.
C10_Witness ==
    /\ Computed
    /\ \E t \in Rows(rolled) :
          /\ ~IsNaN(rolled.cols["Roll_Mean"][t])
          /\ ~IsNaN(rolled.cols["Roll_Vol"][t])
          /\ IsNaN(rolled.cols["Roll_KS"][t])
          /\ rolled.index[t] \notin Dates(e.df)

\* The fixed point of Roll_Vol separates the variances the model reaches:
\* two windows have the same stored Roll_Vol only if they have the same
\* sample variance.
VolFixedPointExact ==
    Computed =>
        \A t, u \in Rows(rolled) :
            (Complete(rolled.cols["Log_Return"], t) /\ Complete(rolled.cols["Log_Return"], u)
             /\ rolled.cols["Roll_Vol"][t] = rolled.cols["Roll_Vol"][u])
            => LET x == Values(Window(rolled.cols["Log_Return"], t))
                   y == Values(Window(rolled.cols["Log_Return"], u))
               IN ROLLING_WINDOW * SumSeq(Squares(x)) - SumSeq(x) * SumSeq(x)
                    = ROLLING_WINDOW * SumSeq(Squares(y)) - SumSeq(y) * SumSeq(y)

=============================================================================
